---- MODULE Spec2Model ----
(***************************************************************************)
(* Model of src/agent.py: the Flask facade in front of root_agent.         *)
(*   GET  /       serve_ui        (lines 159-162)                          *)
(*   POST /agent  agent_handler   (lines 165-182)                          *)
(* The agent runtime (root_agent.generate_response) is an external call:   *)
(* its outcome is a nondeterministic choice, and it may never conclude.    *)
(* A handler run is split only where the code blocks, at that call.        *)
(***************************************************************************)
EXTENDS Integers, Sequences, FiniteSets, TLC

\* ------------------------------------------------------------------ bounds
\* number of POST /agent requests a behaviour handles
NumReq == 2

Reqs == 1..NumReq

\* ------------------------------------------------------------ JSON values
\* A JSON / Python value: t is its type, s its characters (str), n its
\* number (int, bool), items its elements (list, dict).  "none" is Python's
\* None (JSON null, or the result of dict.get on an absent key).
Val(t, s, n, items) == [t |-> t, s |-> s, n |-> n, items |-> items]
None == Val("none", "", 0, <<>>)
JStr(s) == Val("str", s, 0, <<>>)
JInt(n) == Val("int", "", n, <<>>)
JBool(n) == Val("bool", "", n, <<>>)
JList(items) == Val("list", "", 0, items)
JDict(items) == Val("dict", "", 0, items)
\* a value json.dumps cannot serialise (bytes)
JBytes(s) == Val("bytes", s, 0, <<>>)

\* Python truthiness, as `not user_query` evaluates it (line 172)
Truthy(v) ==
    CASE v.t = "none" -> FALSE
      [] v.t = "str" -> v.s # ""
      [] v.t = "bytes" -> v.s # ""
      [] v.t = "int" -> v.n # 0
      [] v.t = "bool" -> v.n # 0
      [] v.t = "list" -> Len(v.items) > 0
      [] v.t = "dict" -> Len(v.items) > 0

\* the `query` values requests carry
FalsyQueries == {JStr(""), None, JInt(0), JBool(0), JList(<<>>), JDict(<<>>)}
TruthyQueries == {JStr("hi"), JStr(" "), JInt(5), JList(<<1>>)}
Queries == FalsyQueries \cup TruthyQueries

\* ---------------------------------------------------------- request bodies
\* parse: does the body parse as JSON; top: the type of the parsed document;
\* hasQuery / query: the mapping's `query` entry when top = "dict".
Body(parse, top, hasQuery, query) ==
    [parse |-> parse, top |-> top, hasQuery |-> hasQuery, query |-> query]
NoBody == Body("none", "none", FALSE, None)
MappingBodies ==
    {Body("ok", "dict", FALSE, None)} \cup {Body("ok", "dict", TRUE, q) : q \in Queries}
NonMappingBodies ==
    {Body("bad", "none", FALSE, None), Body("ok", "none", FALSE, None),
     Body("ok", "list", FALSE, None), Body("ok", "str", FALSE, None)}
Bodies == MappingBodies \cup NonMappingBodies

\* -------------------------------------------------------------- exceptions
\* base: "Exception" for anything `except Exception` catches, "BaseException"
\* for the rest (SystemExit, KeyboardInterrupt, ...); args: the constructor's
\* arguments.
Exc(base, args) == [base |-> base, args |-> args]
NoExc == Exc("none", <<>>)

\* str(e) (line 182): "" with no argument, the argument with one
StrOf(e) == IF Len(e.args) = 0 THEN "" ELSE e.args[1]

BadRequest == Exc("Exception", <<"400 Bad Request: Failed to decode JSON object">>)
NoGetAttr(top) ==
    Exc("Exception",
        << CASE top = "none" -> "'NoneType' object has no attribute 'get'"
             [] top = "list" -> "'list' object has no attribute 'get'"
             [] top = "str" -> "'str' object has no attribute 'get'"
             [] OTHER -> "object has no attribute 'get'" >>)
NoTextAttr == Exc("Exception", <<"object has no attribute 'text'">>)
NotSerializable == Exc("Exception", <<"Object of type bytes is not JSON serializable">>)

\* a step of the handler either yields a value or raises
Ok(v) == [raised |-> FALSE, val |-> v, exc |-> NoExc]
Raise(e) == [raised |-> TRUE, val |-> None, exc |-> e]

\* ------------------------------------------------------------ HTTP responses
\* status: the HTTP status; keys: the keys of the JSON object sent; response,
\* state, error: the values under "response", "status", "error".
Response(status, keys, response, state, error) ==
    [status |-> status, keys |-> keys, response |-> response, state |-> state,
     error |-> error]
NoResp == Response(0, {}, None, "", "")

\* line 173: jsonify({"error": "Missing 'query' field in request"}), 400
MissingQueryResponse ==
    Response(400, {"error"}, None, "", "Missing 'query' field in request")

\* the bug of answering a caught exception with a fixed message, not str(e)
ErrorResponse_Generic(e) == Response(500, {"error"}, None, "", "Internal Server Error")

\* line 182: jsonify({"error": str(e)}), 500
ErrorResponse(e) == Response(500, {"error"}, None, "", StrOf(e))

\* line 179: jsonify({"response": response_text, "status": "ok"}), status 200 by
\* default; json.dumps raises TypeError on a value it cannot serialise
SuccessResponse(text) ==
    IF text.t = "bytes" THEN Raise(NotSerializable)
    ELSE Ok(Response(200, {"response", "status"}, text, "ok", ""))

\* ------------------------------------------------------ the agent's outcomes
\* kind "return": generate_response returned an object, with a text attribute
\* (hasText) or without; kind "raise": it raised exc.
Returned(hasText, text) == [kind |-> "return", hasText |-> hasText, text |-> text, exc |-> NoExc]
Raised(e) == [kind |-> "raise", hasText |-> FALSE, text |-> None, exc |-> e]
NoOutcome == [kind |-> "none", hasText |-> FALSE, text |-> None, exc |-> NoExc]
Returns ==
    {Returned(TRUE, JStr("a1")), Returned(TRUE, JBytes("b")), Returned(FALSE, None)}
AgentErrors == {Exc("Exception", <<"quota exceeded">>)}
SystemExits == {Exc("BaseException", <<"exit">>)}
Raises == {Raised(e) : e \in AgentErrors \cup SystemExits}
Outcomes == Returns \cup Raises

\* ------------------------------------------------- agent_handler, as operators
\* line 169: data = request.json
RequestJson(b) == IF b.parse = "bad" THEN Raise(BadRequest) ELSE Ok(b)

\* the bug of reading `query` leniently: a document that is no mapping reads
\* as one without the key
DataGet_Lenient(data) ==
    Ok(IF data.top = "dict" /\ data.hasQuery THEN data.query ELSE None)

\* line 170: user_query = data.get('query')
DataGet(data) ==
    IF data.top # "dict" THEN Raise(NoGetAttr(data.top))
    ELSE Ok(IF data.hasQuery THEN data.query ELSE None)

\* the bug of testing only for absence: `if user_query is None`
ValidationFails_NoneOnly(user_query) == user_query.t = "none"

\* the bug of validating by type: only a non-empty string passes
ValidationFails_StringOnly(user_query) == ~(user_query.t = "str" /\ user_query.s # "")

\* line 172: if not user_query
ValidationFails(user_query) == ~Truthy(user_query)

\* the bug of trimming the query before the call: user_query.strip()
CallArgument_Strip(user_query) ==
    IF user_query.t = "str" /\ user_query.s = " " THEN JStr("") ELSE user_query

\* line 176: the argument root_agent.generate_response is called with
CallArgument(user_query) == user_query

\* line 177: response_text = response_data.text
GetText(out) == IF out.hasText THEN Ok(out.text) ELSE Raise(NoTextAttr)

\* what a run of the handler does next
Respond(r) == [kind |-> "respond", resp |-> r, arg |-> None]
Call(q) == [kind |-> "call", resp |-> NoResp, arg |-> q]
Escape == [kind |-> "escape", resp |-> NoResp, arg |-> None]

\* lines 181-182: except Exception as e
Catch(e) == IF e.base = "Exception" THEN Respond(ErrorResponse(e)) ELSE Escape

\* lines 168-176, from entry to the call of the agent
BeforeCall(b) ==
    LET data == RequestJson(b) IN
    IF data.raised THEN Catch(data.exc)
    ELSE LET user_query == DataGet(data.val) IN
         IF user_query.raised THEN Catch(user_query.exc)
         ELSE IF ValidationFails(user_query.val) THEN Respond(MissingQueryResponse)
         ELSE Call(CallArgument(user_query.val))

\* lines 176-182, from the conclusion of the agent's call to the end
AfterCall(out) ==
    IF out.kind = "raise" THEN Catch(out.exc)
    ELSE LET response_text == GetText(out) IN
         IF response_text.raised THEN Catch(response_text.exc)
         ELSE LET sent == SuccessResponse(response_text.val) IN
              IF sent.raised THEN Catch(sent.exc) ELSE Respond(sent.val)

\* ------------------------------------------------------------------ the page
\* CHAT_UI_HTML (lines 52-156) as the pieces a template engine sees: literal
\* text, and {{ ... }} expressions (it holds none: its only braces are CSS, JS
\* object literals and ${...} of JS template strings).
Text(s) == [kind |-> "text", s |-> s]
CHAT_UI_HTML ==
    << Text("\n<!DOCTYPE html>"), Text("<title>"), Text("Dixie Agent"), Text("</title>"),
       Text("<h1>"), Text("Dixie Agent"), Text("</h1>"),
       Text("<script>"), Text("${isUser ? 'justify-end' : 'justify-start'}"),
       Text("fetch(backendUrl + '/agent')"), Text("</script>"), Text("</html>"), Text("\n") >>

\* render_template_string (line 162) with an empty context: text is copied,
\* an expression over an undefined name renders as "", and one trailing
\* newline of the template is dropped
RECURSIVE RenderPieces(_)
RenderPieces(tpl) ==
    IF tpl = <<>> THEN <<>>
    ELSE << IF Head(tpl).kind = "text" THEN Head(tpl).s ELSE "" >> \o RenderPieces(Tail(tpl))
render_template_string(tpl) ==
    LET body == IF tpl # <<>> /\ tpl[Len(tpl)] = Text("\n") THEN SubSeq(tpl, 1, Len(tpl) - 1)
                ELSE tpl
    IN RenderPieces(body)
Contains(page, s) == \E i \in 1..Len(page) : page[i] = s

Page(status, html) == [status |-> status, html |-> html]
NoPage == Page(0, <<>>)

\* ------------------------------------------------------------------- state
VARIABLES
    root_agent,     \* the module-level Agent (lines 36-44)
    pc,             \* where each POST /agent request is
    body,           \* the body each request carries
    arg,            \* what generate_response was called with for the request
    invocations,    \* how many times generate_response was called for the request
    outcome,        \* how the request's agent call concluded
    resp,           \* the response agent_handler returned for the request
    sent,           \* how many responses the request received
    hist,           \* the request's events, in order
    page            \* the last response of serve_ui, if any

vars == <<root_agent, pc, body, arg, invocations, outcome, resp, sent, hist, page>>

\* line 31: os.environ.get("ROOT_AGENT_MODEL", "gemini-2.5-flash")
ROOT_AGENT_MODEL(env) == IF env = "" THEN "gemini-2.5-flash" ELSE env
\* the process environment: ROOT_AGENT_MODEL is unset
Environ == ""

\* lines 36-44
Agent(model) ==
    [name |-> "bigquery_agent", model |-> model, instruction |-> "BIGQUERY_PROMPT",
     tools |-> <<"query_bigquery">>]

Init ==
    /\ root_agent = Agent(ROOT_AGENT_MODEL(Environ))
    /\ pc = [r \in Reqs |-> "idle"]
    /\ body = [r \in Reqs |-> NoBody]
    /\ arg = [r \in Reqs |-> None]
    /\ invocations = [r \in Reqs |-> 0]
    /\ outcome = [r \in Reqs |-> NoOutcome]
    /\ resp = [r \in Reqs |-> NoResp]
    /\ sent = [r \in Reqs |-> 0]
    /\ hist = [r \in Reqs |-> <<>>]
    /\ page = NoPage

\* A POST /agent request arrives and is routed to agent_handler (line 165)
Receive(r, b) ==
    /\ pc[r] = "idle"
    /\ pc' = [pc EXCEPT ![r] = "received"]
    /\ body' = [body EXCEPT ![r] = b]
    /\ hist' = [hist EXCEPT ![r] = <<"received">>]
    /\ UNCHANGED <<root_agent, arg, invocations, outcome, resp, sent, page>>

\* the bug of acknowledging the request before the agent has answered: a 200
\* is sent at the call, and the handler answers again when the call concludes
HandlerEntry_Early(r) ==
    /\ pc[r] = "received"
    /\ LET next == BeforeCall(body[r]) IN
       IF next.kind = "call"
       THEN /\ pc' = [pc EXCEPT ![r] = "calling"]
            /\ arg' = [arg EXCEPT ![r] = next.arg]
            /\ invocations' = [invocations EXCEPT ![r] = @ + 1]
            /\ resp' = [resp EXCEPT ![r] = Response(200, {"response", "status"}, JStr("Thinking..."), "ok", "")]
            /\ sent' = [sent EXCEPT ![r] = @ + 1]
            /\ hist' = [hist EXCEPT ![r] = @ \o <<"validated", "called", "responded">>]
       ELSE /\ pc' = [pc EXCEPT ![r] = IF next.kind = "respond" THEN "responded" ELSE "escaped"]
            /\ resp' = [resp EXCEPT ![r] = next.resp]
            /\ sent' = [sent EXCEPT ![r] = IF next.kind = "respond" THEN @ + 1 ELSE @]
            /\ hist' = [hist EXCEPT ![r] = @ \o (IF next.kind = "respond"
                                                  THEN <<"rejected", "responded">>
                                                  ELSE <<"rejected", "escaped">>)]
            /\ UNCHANGED <<arg, invocations>>
    /\ UNCHANGED <<root_agent, body, outcome, page>>

\* agent_handler runs from its entry (line 168) to its first return (173, 182)
\* or to the call of the agent (line 176), where it blocks
HandlerEntry(r) ==
    /\ pc[r] = "received"
    /\ LET next == BeforeCall(body[r]) IN
       IF next.kind = "call"
       THEN /\ pc' = [pc EXCEPT ![r] = "calling"]
            /\ arg' = [arg EXCEPT ![r] = next.arg]
            /\ invocations' = [invocations EXCEPT ![r] = @ + 1]
            /\ hist' = [hist EXCEPT ![r] = @ \o <<"validated", "called">>]
            /\ UNCHANGED <<resp, sent>>
       ELSE /\ pc' = [pc EXCEPT ![r] = IF next.kind = "respond" THEN "responded" ELSE "escaped"]
            /\ resp' = [resp EXCEPT ![r] = next.resp]
            /\ sent' = [sent EXCEPT ![r] = IF next.kind = "respond" THEN @ + 1 ELSE @]
            /\ hist' = [hist EXCEPT ![r] = @ \o (IF next.kind = "respond"
                                                  THEN <<"rejected", "responded">>
                                                  ELSE <<"rejected", "escaped">>)]
            /\ UNCHANGED <<arg, invocations>>
    /\ UNCHANGED <<root_agent, body, outcome, page>>

\* root_agent.generate_response (line 176) concludes: it returns or raises.
\* Nothing in the handler makes it conclude.
AgentConcludes(r, out) ==
    /\ pc[r] = "calling"
    /\ pc' = [pc EXCEPT ![r] = "concluded"]
    /\ outcome' = [outcome EXCEPT ![r] = out]
    /\ hist' = [hist EXCEPT ![r] = @ \o <<IF out.kind = "return" THEN "returned" ELSE "raised">>]
    /\ UNCHANGED <<root_agent, body, arg, invocations, resp, sent, page>>

\* the bug of retrying a failed call once before answering
HandlerResume_Retry(r) ==
    /\ pc[r] = "concluded"
    /\ LET next == AfterCall(outcome[r]) IN
       IF outcome[r].kind = "raise" /\ invocations[r] < 2
       THEN /\ pc' = [pc EXCEPT ![r] = "calling"]
            /\ invocations' = [invocations EXCEPT ![r] = @ + 1]
            /\ hist' = [hist EXCEPT ![r] = @ \o <<"called">>]
            /\ UNCHANGED <<resp, sent>>
       ELSE /\ pc' = [pc EXCEPT ![r] = IF next.kind = "respond" THEN "responded" ELSE "escaped"]
            /\ resp' = [resp EXCEPT ![r] = next.resp]
            /\ sent' = [sent EXCEPT ![r] = IF next.kind = "respond" THEN @ + 1 ELSE @]
            /\ hist' = [hist EXCEPT ![r] = @ \o <<IF next.kind = "respond" THEN "responded" ELSE "escaped">>]
            /\ UNCHANGED invocations
    /\ UNCHANGED <<root_agent, body, arg, outcome, page>>

\* the bug of switching the shared agent to another model after a failure
HandlerResume_Fallback(r) ==
    /\ pc[r] = "concluded"
    /\ LET next == AfterCall(outcome[r]) IN
       /\ pc' = [pc EXCEPT ![r] = IF next.kind = "respond" THEN "responded" ELSE "escaped"]
       /\ resp' = [resp EXCEPT ![r] = next.resp]
       /\ sent' = [sent EXCEPT ![r] = IF next.kind = "respond" THEN @ + 1 ELSE @]
       /\ hist' = [hist EXCEPT ![r] = @ \o <<IF next.kind = "respond" THEN "responded" ELSE "escaped">>]
    /\ root_agent' = IF outcome[r].kind = "raise"
                     THEN [root_agent EXCEPT !.model = "gemini-2.5-pro"]
                     ELSE root_agent
    /\ UNCHANGED <<body, arg, invocations, outcome, page>>

\* the bug of a handler-side timeout: a call still pending is answered 504
HandlerResume_Timeout(r) ==
    /\ pc[r] \in {"calling", "concluded"}
    /\ LET next == IF pc[r] = "calling"
                   THEN Respond(Response(504, {"error"}, None, "", "timeout"))
                   ELSE AfterCall(outcome[r]) IN
       /\ pc' = [pc EXCEPT ![r] = IF next.kind = "respond" THEN "responded" ELSE "escaped"]
       /\ resp' = [resp EXCEPT ![r] = next.resp]
       /\ sent' = [sent EXCEPT ![r] = IF next.kind = "respond" THEN @ + 1 ELSE @]
       /\ hist' = [hist EXCEPT ![r] = @ \o <<IF next.kind = "respond" THEN "responded" ELSE "escaped">>]
    /\ UNCHANGED <<root_agent, body, arg, invocations, outcome, page>>

\* agent_handler runs on from the concluded call to its return (179, 182)
HandlerResume(r) ==
    /\ pc[r] = "concluded"
    /\ LET next == AfterCall(outcome[r]) IN
       /\ pc' = [pc EXCEPT ![r] = IF next.kind = "respond" THEN "responded" ELSE "escaped"]
       /\ resp' = [resp EXCEPT ![r] = next.resp]
       /\ sent' = [sent EXCEPT ![r] = IF next.kind = "respond" THEN @ + 1 ELSE @]
       /\ hist' = [hist EXCEPT ![r] = @ \o <<IF next.kind = "respond" THEN "responded" ELSE "escaped">>]
    /\ UNCHANGED <<root_agent, body, arg, invocations, outcome, page>>

\* the bug of render_template(CHAT_UI_HTML): the HTML is taken for the name of
\* a template file, none is found, and the request fails
ServeUI_TemplateFile ==
    /\ page' = Page(500, <<>>)
    /\ UNCHANGED <<root_agent, pc, body, arg, invocations, outcome, resp, sent, hist>>

\* serve_ui (lines 159-162): GET /
ServeUI ==
    /\ page' = Page(200, render_template_string(CHAT_UI_HTML))
    /\ UNCHANGED <<root_agent, pc, body, arg, invocations, outcome, resp, sent, hist>>

Next ==
    \/ \E r \in Reqs, b \in Bodies : Receive(r, b)
    \/ \E r \in Reqs : HandlerEntry(r)
    \/ \E r \in Reqs, out \in Outcomes : AgentConcludes(r, out)
    \/ \E r \in Reqs : HandlerResume(r)
    \/ ServeUI

Spec == Init /\ [][Next]_vars

\* The bodies and outcomes that decide whether and when a request is answered:
\* one body per way through lines 169-173, one outcome per way through 176-182
LiveBodies ==
    {Body("ok", "dict", FALSE, None), Body("ok", "dict", TRUE, JStr("hi")),
     Body("ok", "list", FALSE, None)}
LiveOutcomes ==
    {Returned(TRUE, JStr("a1"))} \cup Raises

NextLive ==
    \/ \E r \in Reqs, b \in LiveBodies : Receive(r, b)
    \/ \E r \in Reqs : HandlerEntry(r)
    \/ \E r \in Reqs, out \in LiveOutcomes : AgentConcludes(r, out)
    \/ \E r \in Reqs : HandlerResume(r)
    \/ ServeUI

\* The handler's own code runs to its next return or blocking call once it is
\* entered; nothing obliges the agent to conclude.
FairSpec ==
    /\ Init /\ [][NextLive]_vars
    /\ \A r \in Reqs : WF_vars(HandlerEntry(r)) /\ WF_vars(HandlerResume(r))

\* ------------------------------------------------------------------ claims
IsMapping(b) == b.parse = "ok" /\ b.top = "dict"
\* the request's handler has run past validation
Entered(r) == pc[r] \in {"calling", "concluded", "responded", "escaped"}
\* the request's handler has ended
Ended(r) == pc[r] \in {"responded", "escaped"}
NonEmptyString(v) == v.t = "str" /\ v.s # ""
HasStringQuery(b) == IsMapping(b) /\ b.hasQuery /\ NonEmptyString(b.query)
Serialisable(v) == v.t # "bytes"

\* C1 (as stated): a request whose body is a mapping with a non-empty string
\* query, and whose agent call returned a result with a text field, is answered
\* 200 with exactly {"response": <that text>, "status": "ok"}, and the agent was
\* called with exactly that query.
C1_Original ==
    \A r \in Reqs :
        HasStringQuery(body[r]) /\ Ended(r) /\ outcome[r].kind = "return" /\ outcome[r].hasText
        => /\ pc[r] = "responded"
           /\ resp[r] = Response(200, {"response", "status"}, outcome[r].text, "ok", "")
           /\ arg[r] = body[r].query

\* C1 (amended): the same, for a result whose text field holds a value JSON can
\* serialise; and the agent is called with exactly the request's query whenever
\* it is called.
C1_SuccessPath ==
    \A r \in Reqs :
        HasStringQuery(body[r])
        => /\ Entered(r) => invocations[r] > 0 /\ arg[r] = body[r].query
           /\ Ended(r) /\ outcome[r].kind = "return" /\ outcome[r].hasText
                /\ Serialisable(outcome[r].text)
              => /\ pc[r] = "responded"
                 /\ resp[r] = Response(200, {"response", "status"}, outcome[r].text, "ok", "")

C1_Witness ==
    \E r \in Reqs :
        /\ body[r] = Body("ok", "dict", TRUE, JStr(" "))
        /\ arg[r] = JStr(" ")
        /\ outcome[r] = Returned(TRUE, JStr("a1"))
        /\ resp[r].status = 200 /\ resp[r].response = JStr("a1")

\* C2: a request whose body is a mapping in which query is absent or is "" is
\* answered 400 with {"error": "Missing 'query' field in request"}, and the agent
\* is never invoked for it.
C2_MissingQuery ==
    \A r \in Reqs :
        IsMapping(body[r]) /\ (~body[r].hasQuery \/ body[r].query = JStr("")) /\ Entered(r)
        => /\ pc[r] = "responded"
           /\ resp[r] = Response(400, {"error"}, None, "", "Missing 'query' field in request")
           /\ sent[r] = 1
           /\ invocations[r] = 0
           /\ \A i \in 1..Len(hist[r]) : hist[r][i] # "called"

C2_Witness ==
    \E r1, r2 \in Reqs :
        /\ body[r1] = Body("ok", "dict", FALSE, None)
        /\ body[r2] = Body("ok", "dict", TRUE, JStr(""))
        /\ resp[r1].status = 400 /\ resp[r2].status = 400

C10_Truthiness ==
    \A r \in Reqs :
        IsMapping(body[r]) /\ Entered(r)
        => LET absentOrFalsy ==
                   \/ ~body[r].hasQuery
                   \/ body[r].query \in {JStr(""), None, JInt(0), JBool(0), JList(<<>>), JDict(<<>>)}
           IN /\ absentOrFalsy
                 => resp[r].status = 400 /\ invocations[r] = 0 /\ arg[r] = None
              /\ ~absentOrFalsy
                 => invocations[r] = 1 /\ arg[r] = body[r].query /\ resp[r].status # 400

C10_Witness ==
    \E r1, r2 \in Reqs :
        /\ body[r1] = Body("ok", "dict", TRUE, JList(<<1>>))
        /\ invocations[r1] = 1 /\ arg[r1] = JList(<<1>>)
        /\ body[r2] = Body("ok", "dict", TRUE, JBool(0))
        /\ resp[r2].status = 400 /\ invocations[r2] = 0

\* an exception is raised at some stage of the request's handler
RaisedAtSomeStage(r) ==
    \/ ~IsMapping(body[r])
    \/ outcome[r].kind = "raise"
    \/ outcome[r].kind = "return" /\ ~outcome[r].hasText
    \/ outcome[r].kind = "return" /\ outcome[r].hasText /\ ~Serialisable(outcome[r].text)

PassesValidation(b) ==
    IsMapping(b) /\ b.hasQuery /\ b.query \in {JStr("hi"), JStr(" "), JInt(5), JList(<<1>>)}
WellFormed(rsp) ==
    \/ rsp.status = 200 /\ rsp.keys = {"response", "status"} /\ rsp.state = "ok"
    \/ rsp.status = 500 /\ rsp.keys = {"error"}
    \/ rsp.status = 400 /\ rsp.keys = {"error"}

\* C5: the agent is invoked exactly once for each request that passed
\* validation and never for any other (no retry after a failure, no cached
\* answer), and every response sent is well-formed.
C5_OneInvocation ==
    \A r \in Reqs :
        /\ invocations[r] = IF Entered(r) /\ PassesValidation(body[r]) THEN 1 ELSE 0
        /\ pc[r] = "responded" => WellFormed(resp[r])
        /\ pc[r] = "responded" /\ PassesValidation(body[r]) => resp[r].status \in {200, 500}

\* the same valid query twice: two invocations, two differing responses
C5_Witness ==
    \E r1, r2 \in Reqs :
        /\ r1 # r2 /\ body[r1] = body[r2] /\ PassesValidation(body[r1])
        /\ invocations[r1] = 1 /\ invocations[r2] = 1
        /\ pc[r1] = "responded" /\ pc[r2] = "responded"
        /\ resp[r1].status = 200 /\ resp[r2].status = 500

IsPrefix(s, t) == Len(s) <= Len(t) /\ SubSeq(t, 1, Len(s)) = s
Index(s, e) == CHOOSE i \in 1..Len(s) : s[i] = e
Occurs(s, e) == \E i \in 1..Len(s) : s[i] = e
Count(s, e) == Cardinality({i \in 1..Len(s) : s[i] = e})

C7_NoSharedState ==
    [][ /\ root_agent' = root_agent
        /\ \A r \in Reqs : resp[r] # NoResp => resp'[r] = resp[r]
        /\ \A r \in Reqs :
              pc'[r] = pc[r]
              => resp'[r] = resp[r] /\ arg'[r] = arg[r] /\ outcome'[r] = outcome[r]
                 /\ invocations'[r] = invocations[r] /\ sent'[r] = sent[r]
        /\ \A r1, r2 \in Reqs :
              pc'[r1] = "responded" /\ pc'[r2] = "responded"
                 /\ body'[r1] = body'[r2] /\ outcome'[r1] = outcome'[r2]
              => resp'[r1] = resp'[r2]
      ]_vars

\* a failed request beside a successful one
C7_Witness ==
    \E r1, r2 \in Reqs :
        /\ resp[r1].status = 500 /\ outcome[r1].kind = "raise"
        /\ resp[r2].status = 200
        /\ root_agent = Agent("gemini-2.5-flash")

\* C8: GET / is served in every state, with status 200 and the page holding
\* "Dixie Agent", whatever POST /agent requests came before or are pending, and
\* serving it invokes no agent call and touches no request.
C8_ServeUI ==
    /\ [](ENABLED ServeUI)
    /\ [][ page' # page
           => /\ page'.status = 200
              /\ Contains(page'.html, "Dixie Agent")
              /\ page'.html[Len(page'.html)] = "</html>"
              /\ invocations' = invocations /\ pc' = pc /\ resp' = resp
         ]_vars

C8_Witness ==
    /\ page.status = 200 /\ Contains(page.html, "Dixie Agent")
    /\ \E r1, r2 \in Reqs : resp[r1].status = 500 /\ pc[r2] = "calling"

====
